---- MODULE Spec2Model ----
(***************************************************************************)
(* Model of the incremental fetch job of the Berlin wastewater dashboard   *)
(* (fetchAllDataIncremental and its helpers): the store file data.json,    *)
(* the planning of the next monthly window, the remote fetch, the          *)
(* duplicate filter, the merge and the write-back.                         *)
(*                                                                         *)
(* Texts are modelled by their fields: an extraction_date 'dd.mm.yyyy' is  *)
(* the tuple <<dd, mm, yyyy>>, an ISO date 'YYYY-MM-DD' is the tuple       *)
(* <<yyyy, mm, dd>>.  A JavaScript Date is an instant                      *)
(* [day |-> days since 1970-01-01 UTC, ms |-> millisecond of that day].    *)
(* The host's time zone is a fixed offset in minutes east of UTC.          *)
(***************************************************************************)
EXTENDS Integers, Sequences, FiniteSets, TLC

VARIABLES
    store,          \* the file data/data.json: [kind, data]
    clock,          \* the UTC day (days since 1970-01-01) of the latest run
    tz,             \* the host's UTC offset in minutes (east positive)
    pc,             \* position of the job: idle, fetching, writing, exited
    storeBefore,    \* the file as it was when the current run started
    existingData,   \* local of fetchAllDataIncremental
    todayStr,       \* local: ISO date of today
    nextInterval,   \* local: result of getNextMonthInterval, or NoInterval
    startDate,      \* local: extraction_date_start of the request
    endDate,        \* local: extraction_date_end of the request
    fetchResult,    \* what the fetch of this run produced: none, ok, or a failure
    newData,        \* local: the body the API answered
    uniqueNewData,  \* local: newData without the records already stored
    combinedData,   \* local: the merged, sorted data to write
    writeResult,    \* what the write of this run produced: none, ok, failed
    exitCode,       \* exit status of the latest finished run (-1: none yet)
    latestExtractionDate,  \* local: result of findLatestExtractionDate
    coveredTo,      \* history: the day up to which the requests so far leave no gap
    page,           \* the dashboard page in the browser and its request to the server
    tip             \* the chart's tooltip: viewport, size, pointer, position

vars == <<store, clock, tz, pc, storeBefore, existingData, todayStr, nextInterval,
          startDate, endDate, fetchResult, newData, uniqueNewData, combinedData,
          writeResult, exitCode, latestExtractionDate, coveredTo, page, tip>>

----------------------------------------------------------------------------
(* Bounds of the model *)

\* the longest store the model follows
MaxStore == 3
\* the longest response body the model draws
MaxBatch == 2

----------------------------------------------------------------------------
(* Calendar arithmetic of the JavaScript Date object *)

MsPerMinute == 60 * 1000
MsPerDay == 24 * 60 * MsPerMinute

\* days since 1970-01-01 of the civil date y-m-d (proleptic Gregorian)
DaysFromCivil(y, m, d) ==
    LET yy  == IF m <= 2 THEN y - 1 ELSE y
        era == yy \div 400
        yoe == yy - era * 400
        mp  == IF m > 2 THEN m - 3 ELSE m + 9
        doy == (153 * mp + 2) \div 5 + d - 1
        doe == yoe * 365 + yoe \div 4 - yoe \div 100 + doy
    IN  era * 146097 + doe - 719468

\* the civil date <<y, m, d>> of a day number
CivilFromDays(z) ==
    LET zz  == z + 719468
        era == zz \div 146097
        doe == zz - era * 146097
        yoe == (doe - doe \div 1460 + doe \div 36524 - doe \div 146096) \div 365
        doy == doe - (365 * yoe + yoe \div 4 - yoe \div 100)
        mp  == (5 * doy + 2) \div 153
        d   == doy - (153 * mp + 2) \div 5 + 1
        m   == IF mp < 10 THEN mp + 3 ELSE mp - 9
        y   == yoe + era * 400 + (IF m <= 2 THEN 1 ELSE 0)
    IN  <<y, m, d>>

\* an instant moved by delta milliseconds (|delta| below two days)
InstantPlus(t, delta) ==
    LET total == t.ms + delta
    IN  [day |-> t.day + total \div MsPerDay, ms |-> total % MsPerDay]

\* the civil date the host's clock shows at instant t: getFullYear, getMonth
LocalCivil(t, offset) == CivilFromDays(InstantPlus(t, offset * MsPerMinute).day)

\* new Date(year, monthIndex, day): midnight of that day in the host's zone;
\* monthIndex is zero-based and may be 12, which rolls over into the next year
LocalMidnight(year, monthIndex, day, offset) ==
    LET y == year + monthIndex \div 12
        m == (monthIndex % 12) + 1
    IN  InstantPlus([day |-> DaysFromCivil(y, m, day), ms |-> 0], 0 - offset * MsPerMinute)

\* a.getTime() - b.getTime(), reduced to a number of the same sign
TimeDiff(a, b) == IF a.day # b.day THEN a.day - b.day ELSE a.ms - b.ms

\* 'YYYY-MM-DD' > 'YYYY-MM-DD' as strings: character order of zero-padded
\* fields of equal width is the order of the fields, left to right
IsoGreater(a, b) ==
    \/ a[1] > b[1]
    \/ a[1] = b[1] /\ a[2] > b[2]
    \/ a[1] = b[1] /\ a[2] = b[2] /\ a[3] > b[3]

----------------------------------------------------------------------------
(* Helpers of the fetch script *)

\* formatDate: date.toISOString().split("T")[0], the UTC date of the instant
formatDate(date) == CivilFromDays(date.day)

\* parseCustomDate: 'dd.mm.yyyy' -> new Date('yyyy-mm-dd'), midnight UTC
parseCustomDate(dateStr) ==
    [day |-> DaysFromCivil(dateStr[3], dateStr[2], dateStr[1]), ms |-> 0]

getNextMonthInterval(lastDateStr, offset) ==
    LET lastDate           == parseCustomDate(lastDateStr)
        lastLocal          == LocalCivil(lastDate, offset)
        \* getMonth() is zero-based: lastLocal[2] - 1, plus one month
        nextMonthStart     == LocalMidnight(lastLocal[1], lastLocal[2] - 1 + 1, 1, offset)
        startLocal         == LocalCivil(nextMonthStart, offset)
        nextNextMonthStart == LocalMidnight(startLocal[1], startLocal[2] - 1 + 1, 1, offset)
        nextMonthEnd       == InstantPlus(nextNextMonthStart, 0 - 1)
    IN  [startDate |-> formatDate(nextMonthStart), endDate |-> formatDate(nextMonthEnd)]

\* a filter that compares whole records, measuring_point included
filterDuplicatesWholeRecord(existing, new) ==
    SelectSeq(new, LAMBDA newEntry : \A i \in DOMAIN existing : existing[i] # newEntry)

\* filterDuplicates: the new entries no existing entry matches on sample_number
\* and extraction_date (strict equality of both texts)
RECURSIVE filterDuplicates(_, _)
filterDuplicates(existing, new) ==
    IF new = <<>> THEN <<>>
    ELSE LET newEntry == Head(new)
             some     == \E i \in DOMAIN existing :
                            /\ existing[i].sample_number = newEntry.sample_number
                            /\ existing[i].extraction_date = newEntry.extraction_date
         IN  (IF some THEN <<>> ELSE <<newEntry>>) \o filterDuplicates(existing, Tail(new))

\* Array.prototype.sort is stable: an entry is placed behind every entry the
\* comparator does not order after it
InsertAscending(sorted, x) ==
    LET n == Cardinality({i \in DOMAIN sorted :
                 TimeDiff(parseCustomDate(sorted[i].extraction_date),
                          parseCustomDate(x.extraction_date)) <= 0})
    IN  SubSeq(sorted, 1, n) \o <<x>> \o SubSeq(sorted, n + 1, Len(sorted))

\* a merge that leaves the combined data as concatenated
SortAscendingSkipped(data) == data

\* combinedData.sort((a, b) => parseCustomDate(a...) - parseCustomDate(b...))
RECURSIVE SortAscending(_)
SortAscending(data) ==
    IF data = <<>> THEN <<>>
    ELSE InsertAscending(SortAscending(SubSeq(data, 1, Len(data) - 1)), data[Len(data)])

InsertDescending(sorted, x) ==
    LET n == Cardinality({i \in DOMAIN sorted :
                 TimeDiff(parseCustomDate(x.extraction_date),
                          parseCustomDate(sorted[i].extraction_date)) <= 0})
    IN  SubSeq(sorted, 1, n) \o <<x>> \o SubSeq(sorted, n + 1, Len(sorted))

\* data.slice().sort((a, b) => parseCustomDate(b...) - parseCustomDate(a...))
RECURSIVE SortDescending(_)
SortDescending(data) ==
    IF data = <<>> THEN <<>>
    ELSE InsertDescending(SortDescending(SubSeq(data, 1, Len(data) - 1)), data[Len(data)])

\* the value for "null": no extraction date, no interval
NoDate == <<>>
NoInterval == [startDate |-> NoDate, endDate |-> NoDate]

\* a search whose comparator is the ascending one
findLatestExtractionDateAscending(data) ==
    IF Len(data) = 0 THEN NoDate
    ELSE SortAscending(data)[1].extraction_date

findLatestExtractionDate(data) ==
    IF Len(data) = 0 THEN NoDate
    ELSE SortDescending(data)[1].extraction_date

\* a search that sorts the array itself instead of a copy
DataAfterFindLatestInPlace(data) == SortDescending(data)

\* the array passed to findLatestExtractionDate after the call: data.slice()
\* makes the copy that is sorted, the array itself is not touched
DataAfterFindLatest(data) == data

\* the kinds of content of data/data.json that are no JSON array
BadStoreKinds == {"absent", "unreadable", "badjson", "notarray"}

StoreArray(data) == [kind |-> "array", data |-> data]
StoreBad(kind) == [kind |-> kind, data |-> <<>>]

\* a reader whose catch block is missing: the error reaches the caller
readExistingDataUncaught(file) ==
    [threw |-> file.kind # "array", data |-> file.data]

\* readExistingData: the parsed array, or [] when reading, parsing or the
\* Array.isArray test fails (the catch swallows the error); it never throws
readExistingData(file) ==
    [threw |-> FALSE, data |-> IF file.kind = "array" THEN file.data ELSE <<>>]

\* the ways fetchData throws: fetch rejects, response.ok is false,
\* response.json() rejects, json.body is missing or falsy
FetchFailures == {"reject", "status", "badjson", "nobody"}

\* a body that is truthy but no array passes fetchData; newData.filter then
\* throws inside filterDuplicates
RunFailures == FetchFailures \cup {"bodynotarray"}

\* the window of the first run: February 2022
BootstrapInterval == [startDate |-> <<2022, 2, 1>>, endDate |-> <<2022, 2, 28>>]

\* a plan that never clips
ClipToTodayNever(intervalEnd, today) == intervalEnd

\* endDate = nextInterval.endDate > todayStr ? todayStr : nextInterval.endDate
ClipToToday(intervalEnd, today) ==
    IF IsoGreater(intervalEnd, today) THEN today ELSE intervalEnd

\* a merge that never returns early
NothingNewNever(unique) == FALSE

\* a merge that keeps the new records only
MergeNewOnly(existing, unique) == unique

\* existingData.concat(uniqueNewData)
Merge(existing, unique) == existing \o unique

\* if (uniqueNewData.length === 0) return;
NothingNew(unique) == Len(unique) = 0

\* a catch block that logs the error and does not exit
ExitStatusAlwaysZero(failed) == 0

\* process.exit(1) in the catch block; a run that returns normally exits 0
ExitStatus(failed) == IF failed THEN 1 ELSE 0

----------------------------------------------------------------------------
(* The environment: records the API can answer, hosts, days the job runs *)

Record(sn, date, mp) ==
    [sample_number |-> sn, extraction_date |-> date, measuring_point |-> mp]

Universe ==
    { Record("S1", <<15, 3, 2023>>, "A"),
      Record("S1", <<15, 3, 2023>>, "B"),
      Record("S2", <<15, 3, 2023>>, "A"),
      Record("S2", <<5, 4, 2023>>, "A"),
      Record("S1", <<28, 2, 2022>>, "A") }

\* response bodies: any sequence of records, repeats included
Bodies == UNION {[1..n -> Universe] : n \in 0..MaxBatch}

SameKey(r, q) ==
    r.sample_number = q.sample_number /\ r.extraction_date = q.extraction_date

\* arrays found in data.json before the first run: any order, no key twice
PriorArrays ==
    {d \in UNION {[1..n -> Universe] : n \in 0..2} :
        \A i, j \in DOMAIN d : i # j => ~SameKey(d[i], d[j])}

\* UTC offsets of the host in minutes: New York, UTC, Berlin (winter)
HostOffsets == {0 - 300, 0, 60}

\* the UTC days on which the job is run
RunDays == {DaysFromCivil(2023, 4, 10), DaysFromCivil(2023, 5, 2)}

----------------------------------------------------------------------------
(* The job *)


\* the day number of an ISO date
IsoDay(iso) == DaysFromCivil(iso[1], iso[2], iso[3])

\* the page before it is opened, the tooltip before the chart is drawn
NoBody == [kind |-> "none", data |-> <<>>]
NotLoaded == [state |-> "pending", rawData |-> <<>>]
PageIdle == [pc |-> "closed", status |-> 0, body |-> NoBody, loaded |-> NotLoaded,
             options |-> {}, charts |-> 0, error |-> ""]
TipIdle == [pc |-> "none", vw |-> 0, vh |-> 0, width |-> 0, height |-> 0,
            scrollX |-> 0, scrollY |-> 0, clientX |-> 0, clientY |-> 0,
            pageX |-> 0, pageY |-> 0, point |-> FALSE,
            opacity |-> 0, left2 |-> 0, top2 |-> 0]

\* the day up to which the requests leave no gap, after a request for the days
\* s..e; what lies before the first request counts as requested
CoveredAfter(covered, s, e) ==
    LET before == IF covered < 0 THEN s - 1 ELSE covered
    IN  IF s <= before + 1 /\ e > before THEN e ELSE before

Init ==
    /\ store \in {StoreBad(k) : k \in BadStoreKinds} \cup {StoreArray(d) : d \in PriorArrays}
    /\ clock \in RunDays
    /\ tz \in HostOffsets
    /\ pc = "idle"
    /\ storeBefore = store
    /\ existingData = <<>>
    /\ todayStr = NoDate
    /\ nextInterval = NoInterval
    /\ startDate = NoDate
    /\ endDate = NoDate
    /\ fetchResult = "none"
    /\ newData = <<>>
    /\ uniqueNewData = <<>>
    /\ combinedData = <<>>
    /\ writeResult = "none"
    /\ exitCode = 0 - 1
    /\ latestExtractionDate = NoDate
    /\ coveredTo = 0 - 1
    /\ page = PageIdle
    /\ tip = TipIdle

\* A run from its start to the await of fetch: read the store, take today's
\* date, plan the window, send the request.  An error thrown on the way is
\* caught by the catch block of fetchAllDataIncremental.
BeginRun ==
    /\ pc \in {"idle", "exited"}
    /\ \E d \in RunDays, ms \in {0, MsPerDay - 1} :
        /\ d >= clock
        /\ clock' = d
        /\ todayStr' = formatDate([day |-> d, ms |-> ms])
    /\ storeBefore' = store
    /\ LET loaded == readExistingData(store)
       IN  IF loaded.threw
           THEN /\ existingData' = <<>>
                /\ latestExtractionDate' = NoDate
                /\ nextInterval' = NoInterval
                /\ startDate' = NoDate
                /\ endDate' = NoDate
                /\ exitCode' = ExitStatus(TRUE)
                /\ pc' = "exited"
           ELSE /\ IF Len(loaded.data) = 0
                   THEN /\ existingData' = loaded.data
                        /\ latestExtractionDate' = NoDate
                        /\ nextInterval' = NoInterval
                        /\ startDate' = BootstrapInterval.startDate
                        /\ endDate' = BootstrapInterval.endDate
                   ELSE /\ latestExtractionDate' = findLatestExtractionDate(loaded.data)
                        /\ existingData' = DataAfterFindLatest(loaded.data)
                        /\ nextInterval' = getNextMonthInterval(latestExtractionDate', tz)
                        /\ startDate' = nextInterval'.startDate
                        /\ endDate' = ClipToToday(nextInterval'.endDate, todayStr')
                /\ exitCode' = 0 - 1
                /\ pc' = "fetching"
    /\ fetchResult' = "none"
    /\ newData' = <<>>
    /\ uniqueNewData' = <<>>
    /\ combinedData' = <<>>
    /\ writeResult' = "none"
    /\ UNCHANGED <<store, tz, page, tip>>

\* a run starts; the history of the requested days is not kept
StartRun == BeginRun /\ UNCHANGED coveredTo

\* a job that sends the request again after a failure
RunFailsRetry ==
    /\ pc = "fetching"
    /\ \E kind \in RunFailures : fetchResult' = kind
    /\ pc' = "fetching"
    /\ UNCHANGED <<store, clock, tz, storeBefore, existingData, todayStr, nextInterval,
                   startDate, endDate, newData, uniqueNewData, combinedData,
                   writeResult, exitCode, latestExtractionDate, coveredTo, page, tip>>

\* The request fails, or its body is no array: the catch block logs the error
\* and exits with status 1.
RunFails ==
    /\ pc = "fetching"
    /\ \E kind \in RunFailures : fetchResult' = kind
    /\ exitCode' = ExitStatus(TRUE)
    /\ pc' = "exited"
    /\ UNCHANGED <<store, clock, tz, storeBefore, existingData, todayStr, nextInterval,
                   startDate, endDate, newData, uniqueNewData, combinedData,
                   writeResult, latestExtractionDate, coveredTo, page, tip>>

\* The request is answered with the array body: filter the duplicates; return
\* when nothing is left, else merge, sort and start writing.
ReceiveBody(body) ==
    /\ newData' = body
    /\ fetchResult' = "ok"
    /\ uniqueNewData' = filterDuplicates(existingData, newData')
    /\ IF NothingNew(uniqueNewData')
       THEN /\ combinedData' = <<>>
            /\ exitCode' = ExitStatus(FALSE)
            /\ pc' = "exited"
       ELSE /\ combinedData' = SortAscending(Merge(existingData, uniqueNewData'))
            /\ exitCode' = exitCode
            /\ pc' = "writing"
    /\ UNCHANGED <<store, clock, tz, storeBefore, existingData, todayStr, nextInterval,
                   startDate, endDate, writeResult, latestExtractionDate, coveredTo,
                   page, tip>>

\* The API answers any array of records.
FetchReturns ==
    /\ pc = "fetching"
    /\ \E body \in Bodies :
        /\ Len(existingData) + Len(filterDuplicates(existingData, body)) <= MaxStore
        /\ ReceiveBody(body)

\* fs.writeFile resolves: the file holds the merged data.
WriteSucceeds ==
    /\ pc = "writing"
    /\ store' = StoreArray(combinedData)
    /\ writeResult' = "ok"
    /\ exitCode' = ExitStatus(FALSE)
    /\ pc' = "exited"
    /\ UNCHANGED <<clock, tz, storeBefore, existingData, todayStr, nextInterval,
                   startDate, endDate, fetchResult, newData, uniqueNewData,
                   combinedData, latestExtractionDate, coveredTo, page, tip>>

\* fs.writeFile rejects: the file is as before or holds a truncated text.
WriteFails ==
    /\ pc = "writing"
    /\ store' \in {store, StoreBad("badjson")}
    /\ writeResult' = "failed"
    /\ exitCode' = ExitStatus(TRUE)
    /\ pc' = "exited"
    /\ UNCHANGED <<clock, tz, storeBefore, existingData, todayStr, nextInterval,
                   startDate, endDate, fetchResult, newData, uniqueNewData,
                   combinedData, latestExtractionDate, coveredTo, page, tip>>

Next == StartRun \/ RunFails \/ FetchReturns \/ WriteSucceeds \/ WriteFails

Spec == Init /\ [][Next]_vars

----------------------------------------------------------------------------
(* The planning step alone, over every last extraction date of two years *)

IsLeapYear(y) == (y % 4 = 0 /\ y % 100 # 0) \/ y % 400 = 0

DaysInMonth(y, m) ==
    IF m = 2 THEN (IF IsLeapYear(y) THEN 29 ELSE 28)
    ELSE IF m \in {4, 6, 9, 11} THEN 30 ELSE 31

\* every 'dd.mm.yyyy' of 2023 (no leap year) and 2024 (leap year)
CalendarDates ==
    {<<d, m, y>> : d \in 1..31, m \in 1..12, y \in {2023, 2024}} \ 
    {<<d, m, y>> \in {<<d, m, y>> : d \in 29..31, m \in 1..12, y \in {2023, 2024}} :
        d > DaysInMonth(y, m)}

InitInterval ==
    /\ store \in {StoreArray(<<Record("S1", date, "A")>>) : date \in CalendarDates}
    /\ clock \in RunDays
    /\ tz \in HostOffsets
    /\ pc = "idle"
    /\ storeBefore = store
    /\ existingData = <<>>
    /\ todayStr = NoDate
    /\ nextInterval = NoInterval
    /\ startDate = NoDate
    /\ endDate = NoDate
    /\ fetchResult = "none"
    /\ newData = <<>>
    /\ uniqueNewData = <<>>
    /\ combinedData = <<>>
    /\ writeResult = "none"
    /\ exitCode = 0 - 1
    /\ latestExtractionDate = NoDate
    /\ coveredTo = 0 - 1
    /\ page = PageIdle
    /\ tip = TipIdle

NextInterval == StartRun

SpecInterval == InitInterval /\ [][NextInterval]_vars

----------------------------------------------------------------------------
(* findLatestExtractionDate alone, over every dataset in any order *)

\* the job's variables while no run is under way
JobIdle ==
    /\ clock \in RunDays /\ \A d \in RunDays : clock <= d
    /\ tz = 0
    /\ pc = "idle"
    /\ existingData = <<>>
    /\ todayStr = NoDate
    /\ nextInterval = NoInterval
    /\ startDate = NoDate
    /\ endDate = NoDate
    /\ fetchResult = "none"
    /\ newData = <<>>
    /\ uniqueNewData = <<>>
    /\ combinedData = <<>>
    /\ writeResult = "none"
    /\ exitCode = 0 - 1
    /\ latestExtractionDate = NoDate
    /\ coveredTo = 0 - 1

Datasets == UNION {[1..n -> Universe] : n \in 0..MaxStore}

InitLatest ==
    /\ store \in {StoreArray(d) : d \in Datasets}
    /\ clock \in RunDays /\ \A d \in RunDays : clock <= d
    /\ tz = 0
    /\ pc = "loaded"
    /\ storeBefore = store
    /\ existingData = store.data
    /\ todayStr = NoDate
    /\ nextInterval = NoInterval
    /\ startDate = NoDate
    /\ endDate = NoDate
    /\ fetchResult = "none"
    /\ newData = <<>>
    /\ uniqueNewData = <<>>
    /\ combinedData = <<>>
    /\ writeResult = "none"
    /\ exitCode = 0 - 1
    /\ latestExtractionDate = NoDate
    /\ coveredTo = 0 - 1
    /\ page = PageIdle
    /\ tip = TipIdle

\* findLatestExtractionDate(existingData) is called and returns
CallFindLatest ==
    /\ pc = "loaded"
    /\ latestExtractionDate' = findLatestExtractionDate(existingData)
    /\ existingData' = DataAfterFindLatest(existingData)
    /\ pc' = "found"
    /\ UNCHANGED <<store, clock, tz, storeBefore, todayStr, nextInterval, startDate,
                   endDate, fetchResult, newData, uniqueNewData, combinedData,
                   writeResult, exitCode, coveredTo, page, tip>>

NextLatest == CallFindLatest

SpecLatest == InitLatest /\ [][NextLatest]_vars

----------------------------------------------------------------------------
(* The dashboard: GET /api/data, loadData and the page's two handlers *)

MaxCharts == 3

\* GET /api/data: the file's text with status 200, or status 500 and an error
\* object when readFileSync throws; the text is sent as it is, parsed or not
ApiDataResponse(file) ==
    IF file.kind \in {"absent", "unreadable"}
    THEN [status |-> 500, body |-> [kind |-> "error", data |-> <<>>]]
    ELSE [status |-> 200, body |-> file]

\* a loader without the Array.isArray test
loadDataUnchecked(status, body) ==
    IF status # 200 THEN [state |-> "rejected", rawData |-> <<>>]
    ELSE IF body.kind = "badjson" THEN [state |-> "rejected", rawData |-> <<>>]
    ELSE [state |-> "resolved", rawData |-> body.data]

\* loadData once the response is there: throws when response.ok is false,
\* when response.json() rejects and when the parsed value is no array
loadData(status, body) ==
    IF status # 200 THEN [state |-> "rejected", rawData |-> <<>>]
    ELSE IF body.kind = "badjson" THEN [state |-> "rejected", rawData |-> <<>>]
    ELSE IF body.kind # "array" THEN [state |-> "rejected", rawData |-> <<>>]
    ELSE [state |-> "resolved", rawData |-> body.data]

\* [...new Set(rawData.map(d => d.measuring_point))]
getStations(rawData) == {rawData[i].measuring_point : i \in DOMAIN rawData}

InitPage ==
    /\ JobIdle
    /\ store \in {StoreBad(k) : k \in BadStoreKinds} \cup {StoreArray(d) : d \in PriorArrays}
    /\ storeBefore = store
    /\ page = PageIdle
    /\ tip = TipIdle

\* main.js is loaded: loadData() calls fetch("/api/data")
PageOpens ==
    /\ page.pc = "closed"
    /\ page' = [page EXCEPT !.pc = "requested"]
    /\ UNCHANGED <<store, clock, tz, pc, storeBefore, existingData, todayStr,
                   nextInterval, startDate, endDate, fetchResult, newData,
                   uniqueNewData, combinedData, writeResult, exitCode,
                   latestExtractionDate, coveredTo, tip>>

\* the server's handler runs and its response reaches the page
ServerAnswers ==
    /\ page.pc = "requested"
    /\ page' = [page EXCEPT !.pc = "answered",
                            !.status = ApiDataResponse(store).status,
                            !.body = ApiDataResponse(store).body]
    /\ UNCHANGED <<store, clock, tz, pc, storeBefore, existingData, todayStr,
                   nextInterval, startDate, endDate, fetchResult, newData,
                   uniqueNewData, combinedData, writeResult, exitCode,
                   latestExtractionDate, coveredTo, tip>>

\* fetch rejects (no connection): loadData rejects at its first await
NetworkFails ==
    /\ page.pc = "requested"
    /\ page' = [page EXCEPT !.pc = "settled",
                            !.loaded = [state |-> "rejected", rawData |-> <<>>]]
    /\ UNCHANGED <<store, clock, tz, pc, storeBefore, existingData, todayStr,
                   nextInterval, startDate, endDate, fetchResult, newData,
                   uniqueNewData, combinedData, writeResult, exitCode,
                   latestExtractionDate, coveredTo, tip>>

\* loadData goes on after the response and settles its promise
LoadDataSettles ==
    /\ page.pc = "answered"
    /\ page' = [page EXCEPT !.pc = "settled",
                            !.loaded = loadData(page.status, page.body)]
    /\ UNCHANGED <<store, clock, tz, pc, storeBefore, existingData, todayStr,
                   nextInterval, startDate, endDate, fetchResult, newData,
                   uniqueNewData, combinedData, writeResult, exitCode,
                   latestExtractionDate, coveredTo, tip>>

\* the then handler: one option per station, the change handler is set and
\* the first station's chart is drawn
ThenHandler ==
    /\ page.pc = "settled"
    /\ page.loaded.state = "resolved"
    /\ page' = [page EXCEPT !.pc = "shown",
                            !.options = getStations(page.loaded.rawData),
                            !.charts = page.charts + 1]
    /\ UNCHANGED <<store, clock, tz, pc, storeBefore, existingData, todayStr,
                   nextInterval, startDate, endDate, fetchResult, newData,
                   uniqueNewData, combinedData, writeResult, exitCode,
                   latestExtractionDate, coveredTo, tip>>

\* the catch handler: the error-message element gets its text
CatchHandler ==
    /\ page.pc = "settled"
    /\ page.loaded.state = "rejected"
    /\ page' = [page EXCEPT !.pc = "failed", !.error = "Failed to load data."]
    /\ UNCHANGED <<store, clock, tz, pc, storeBefore, existingData, todayStr,
                   nextInterval, startDate, endDate, fetchResult, newData,
                   uniqueNewData, combinedData, writeResult, exitCode,
                   latestExtractionDate, coveredTo, tip>>

\* the change handler of the dropdown: the chosen station's chart is drawn
StationChange ==
    /\ page.pc = "shown"
    /\ page.charts < MaxCharts
    /\ \E selectedStation \in page.options :
          page' = [page EXCEPT !.charts = page.charts + 1]
    /\ UNCHANGED <<store, clock, tz, pc, storeBefore, existingData, todayStr,
                   nextInterval, startDate, endDate, fetchResult, newData,
                   uniqueNewData, combinedData, writeResult, exitCode,
                   latestExtractionDate, coveredTo, tip>>

NextPage ==
    \/ PageOpens
    \/ ServerAnswers
    \/ NetworkFails
    \/ LoadDataSettles
    \/ ThenHandler
    \/ CatchHandler
    \/ StationChange

SpecPage == InitPage /\ [][NextPage]_vars

----------------------------------------------------------------------------
(* The tooltip: updateTooltip on a mouse event over the chart.  Lengths are
   in CSS pixels; left2 and top2 hold twice the value of left and top,
   because top = pageY - tooltipHeight / 2 may end in half a pixel *)

MaxViewportWidth == 40
MaxViewportHeight == 30
MaxScroll == 12

padding == 10
PointerOffset == 15

\* let left = pageX + 15, the flip to the pointer's left side and the clamp
TooltipLeft2(pageX, tooltipWidth, vw) ==
    LET right == pageX + PointerOffset
        side == IF right + tooltipWidth + padding > vw
                THEN pageX - tooltipWidth - PointerOffset
                ELSE right
    IN  2 * (IF side < padding THEN padding ELSE side)

\* let top = pageY - tooltipHeight / 2 and its two clamps
TooltipTop2(pageY, tooltipHeight, vh) ==
    LET centred2 == 2 * pageY - tooltipHeight
        low2 == IF centred2 + 2 * tooltipHeight + 2 * padding > 2 * vh
                THEN 2 * (vh - tooltipHeight - padding)
                ELSE centred2
    IN  IF low2 < 2 * padding THEN 2 * padding ELSE low2

\* offsetWidth and offsetHeight of tooltips that fit the viewport with the
\* padding on both sides: a small one and the largest that fits
TooltipWidths(vw) == {8, vw - 2 * padding}
TooltipHeights(vh) == {7, vh - 2 * padding}

\* the chart is drawn in a window of some size, scrolled or not
InitTooltip ==
    /\ JobIdle
    /\ store = StoreArray(<<>>)
    /\ storeBefore = store
    /\ page = PageIdle
    /\ \E vw \in {MaxViewportWidth}, vh \in {MaxViewportHeight},
          sx \in {0, MaxScroll}, sy \in {0, MaxScroll} :
          \E w \in TooltipWidths(vw), h \in TooltipHeights(vh) :
             tip = [TipIdle EXCEPT !.pc = "drawn", !.vw = vw, !.vh = vh,
                                   !.width = w, !.height = h,
                                   !.scrollX = sx, !.scrollY = sy]

\* mousemove at a point of the viewport: event.pageX and event.pageY count
\* from the document's corner, so they include the scroll offsets
MouseMove ==
    /\ tip.pc = "drawn"
    /\ \E cx \in 0..tip.vw, cy \in 0..tip.vh, found \in BOOLEAN :
          LET px == cx + tip.scrollX
              py == cy + tip.scrollY
          IN  tip' = IF found
                     THEN [tip EXCEPT !.pc = "placed", !.clientX = cx, !.clientY = cy,
                                      !.pageX = px, !.pageY = py, !.point = TRUE,
                                      !.opacity = 1,
                                      !.left2 = TooltipLeft2(px, tip.width, tip.vw),
                                      !.top2 = TooltipTop2(py, tip.height, tip.vh)]
                     ELSE [tip EXCEPT !.pc = "hidden", !.clientX = cx, !.clientY = cy,
                                      !.pageX = px, !.pageY = py, !.point = FALSE,
                                      !.opacity = 0]
    /\ UNCHANGED <<store, clock, tz, pc, storeBefore, existingData, todayStr,
                   nextInterval, startDate, endDate, fetchResult, newData,
                   uniqueNewData, combinedData, writeResult, exitCode,
                   latestExtractionDate, coveredTo, page>>

NextTooltip == MouseMove

SpecTooltip == InitTooltip /\ [][NextTooltip]_vars

----------------------------------------------------------------------------
(* Repeated runs against an API that holds a fixed dataset: every fetch and
   every write succeeds, each run is on a later day than the one before
   until the last of RunDays, and the host's zone is UTC *)

RECURSIVE AsSequence(_)
AsSequence(S) ==
    IF S = {} THEN <<>>
    ELSE LET r == CHOOSE x \in S : TRUE IN <<r>> \o AsSequence(S \ {r})

\* what the API holds
ApiData == AsSequence(Universe)

\* the API's answer to extraction_date_from = start, extraction_date_to = end
ApiAnswer(start, end) ==
    LET InWindow(r) ==
            LET day == DaysFromCivil(r.extraction_date[3], r.extraction_date[2],
                                     r.extraction_date[1])
            IN  IsoDay(start) <= day /\ day <= IsoDay(end)
    IN  SelectSeq(ApiData, InWindow)

FirstRunDay == CHOOSE d \in RunDays : \A e \in RunDays : d <= e
LastRunDay == CHOOSE d \in RunDays : \A e \in RunDays : e <= d

InitProgress ==
    /\ JobIdle
    /\ store \in {StoreBad(k) : k \in BadStoreKinds} \cup {StoreArray(d) : d \in PriorArrays}
    /\ storeBefore = store
    /\ page = PageIdle
    /\ tip = TipIdle

\* a run starts on a later day; the days its request covers are noted
StartRunTracked ==
    /\ BeginRun
    /\ clock' > clock \/ clock = LastRunDay \/ pc = "idle"
    /\ coveredTo' = IF pc' = "fetching"
                    THEN CoveredAfter(coveredTo, IsoDay(startDate'), IsoDay(endDate'))
                    ELSE coveredTo

\* the API answers with the records of the window
ApiAnswers ==
    /\ pc = "fetching"
    /\ ReceiveBody(ApiAnswer(startDate, endDate))

NextProgress == StartRunTracked \/ ApiAnswers \/ WriteSucceeds

\* runs are started again and again, every request is answered, and a write
\* that has begun ends
ProgressFairness ==
    /\ []<><<StartRunTracked>>_vars
    /\ []<><<ApiAnswers>>_vars
    /\ WF_vars(WriteSucceeds)

SpecProgress == InitProgress /\ [][NextProgress]_vars /\ ProgressFairness

----------------------------------------------------------------------------
(* Properties *)

\* 'dd.mm.yyyy' a is a later calendar day than 'dd.mm.yyyy' b
DateLater(a, b) ==
    \/ a[3] > b[3]
    \/ a[3] = b[3] /\ a[2] > b[2]
    \/ a[3] = b[3] /\ a[2] = b[2] /\ a[1] > b[1]

\* the latest extraction date among the records of data (data not empty)
LatestDate(data) ==
    CHOOSE d \in {data[i].extraction_date : i \in DOMAIN data} :
        \A i \in DOMAIN data : ~DateLater(data[i].extraction_date, d)

\* how many records of data have the key of r
KeyCount(data, r) == Cardinality({i \in DOMAIN data : SameKey(data[i], r)})

\* how many times r itself occurs in data
Occurrences(data, r) == Cardinality({i \in DOMAIN data : data[i] = r})

\* the latest finished run wrote the store
RunWrote == pc = "exited" /\ writeResult = "ok"

\* C1: after every write of the store no two records share the same
\* (sample_number, extraction_date) pair.
NoDuplicateKeysAfterWrite ==
    RunWrote =>
        \A i, j \in DOMAIN store.data : i # j => ~SameKey(store.data[i], store.data[j])

\* C2: after every write of the store the stored sequence is sorted ascending
\* by extraction date, whatever the order of the prior store and of the batch.
SortedAfterWrite ==
    RunWrote =>
        \A i, j \in DOMAIN store.data :
            i < j => ~DateLater(store.data[i].extraction_date, store.data[j].extraction_date)

\* a run wrote records that neither the prior store nor the batch held in
\* ascending order
SortedAfterWriteWitness ==
    /\ RunWrote
    /\ storeBefore.kind = "array"
    /\ \E i, j \in DOMAIN storeBefore.data :
          i < j /\ DateLater(storeBefore.data[i].extraction_date,
                             storeBefore.data[j].extraction_date)
    /\ \E i, j \in DOMAIN newData :
          i < j /\ DateLater(newData[i].extraction_date, newData[j].extraction_date)
    /\ Len(store.data) > Len(storeBefore.data)

\* the first day of the calendar month after the month of 'dd.mm.yyyy' d
FirstOfNextMonth(d) ==
    IF d[2] = 12 THEN <<d[3] + 1, 1, 1>> ELSE <<d[3], d[2] + 1, 1>>

\* the last day of that month
LastOfNextMonth(d) ==
    LET s == FirstOfNextMonth(d) IN <<s[1], s[2], DaysInMonth(s[1], s[2])>>

\* C3: for every last extraction date getNextMonthInterval returns the first
\* and the last day of the calendar month after the last date's month.
IntervalIsNextCalendarMonth ==
    (pc = "fetching" /\ Len(existingData) > 0) =>
        /\ nextInterval.startDate = FirstOfNextMonth(LatestDate(existingData))
        /\ nextInterval.endDate = LastOfNextMonth(LatestDate(existingData))

\* what does hold of the code: the same on a host whose zone is UTC
IntervalIsNextCalendarMonthOnUtcHost ==
    (pc = "fetching" /\ Len(existingData) > 0 /\ tz = 0) =>
        /\ nextInterval.startDate = FirstOfNextMonth(LatestDate(existingData))
        /\ nextInterval.endDate = LastOfNextMonth(LatestDate(existingData))

SkipsWhenNextMonthNotBegun ==
    (pc # "idle" /\ Len(existingData) > 0 /\ IsoDay(startDate) > IsoDay(endDate)) =>
        /\ pc = "exited"
        /\ fetchResult = "none"
        /\ writeResult = "none"
        /\ exitCode = 0

\* C6: a window that a run requested and received successfully is not
\* requested again by the next run.
NoWindowRefetched ==
    [][(pc = "exited" /\ fetchResult = "ok" /\ pc' = "fetching")
          => <<startDate', endDate'>> # <<startDate, endDate>>]_vars

\* C7: filterDuplicates discards an incoming record if and only if an existing
\* record has the same sample_number and the same extraction_date, whatever
\* its measuring_point and its position; after the write no key of the prior
\* data has more records than before.
FilterDropsExactlyKeyMatches ==
    fetchResult = "ok" =>
        /\ \A r \in Universe :
              Occurrences(uniqueNewData, r) =
                  IF KeyCount(existingData, r) > 0 THEN 0 ELSE Occurrences(newData, r)
        /\ RunWrote =>
              \A i \in DOMAIN existingData :
                  KeyCount(store.data, existingData[i]) = KeyCount(existingData, existingData[i])

\* a run wrote a batch whose second record was dropped for matching the key of
\* a stored record of another measuring point
FilterDropsExactlyKeyMatchesWitness ==
    /\ RunWrote
    /\ Len(newData) = 2
    /\ Len(uniqueNewData) = 1
    /\ \E i \in DOMAIN existingData :
          /\ SameKey(existingData[i], newData[2])
          /\ existingData[i].measuring_point # newData[2].measuring_point

\* C8: when the batch is empty or every fetched record matches a stored key,
\* the run writes nothing, the store is the identical file and the exit
\* status is 0.
NoWriteWhenNothingNew ==
    (/\ pc = "exited"
     /\ fetchResult = "ok"
     /\ \A i \in DOMAIN newData : KeyCount(existingData, newData[i]) > 0) =>
        /\ store = storeBefore
        /\ writeResult = "none"
        /\ exitCode = 0

\* a run over an unsorted store fetched only records the store held
NoWriteWhenNothingNewWitness ==
    /\ pc = "exited"
    /\ fetchResult = "ok"
    /\ Len(newData) > 0
    /\ \A i \in DOMAIN newData : KeyCount(existingData, newData[i]) > 0
    /\ \E i, j \in DOMAIN storeBefore.data :
          i < j /\ DateLater(storeBefore.data[i].extraction_date,
                             storeBefore.data[j].extraction_date)
    /\ store = storeBefore

\* C9: when the store file is absent, unreadable, no JSON or no array, the run
\* reads an empty dataset and requests 2022-02-01 to 2022-02-28; it does not
\* fail before the request.
BootstrapOnUnusableStore ==
    (pc # "idle" /\ storeBefore.kind \in BadStoreKinds) =>
        /\ existingData = <<>>
        /\ startDate = <<2022, 2, 1>>
        /\ endDate = <<2022, 2, 28>>
        /\ pc = "exited" => fetchResult # "none"

\* a run over a store file that is no JSON has sent the bootstrap request
BootstrapOnUnusableStoreWitness ==
    /\ pc = "fetching"
    /\ storeBefore.kind = "badjson"
    /\ startDate = <<2022, 2, 1>>
    /\ endDate = <<2022, 2, 28>>

\* C10: when the fetch fails the run exits with status 1 and the store is as
\* before the run; a run that hits no failure exits with status 0.
FetchFailureExitsOneStoreUntouched ==
    pc = "exited" =>
        /\ fetchResult \in RunFailures =>
              exitCode = 1 /\ store = storeBefore /\ writeResult = "none"
        /\ (fetchResult = "ok" /\ writeResult # "failed") => exitCode = 0

\* a run over a non-empty store ended on a response without body
FetchFailureExitsOneStoreUntouchedWitness ==
    /\ pc = "exited"
    /\ fetchResult = "nobody"
    /\ storeBefore.kind = "array"
    /\ Len(storeBefore.data) > 0
    /\ exitCode = 1

\* C11: when the latest extraction date in the store lies in the calendar
\* month of today, the planned window has its start later than its clipped end.
SameMonthPlansNothingToFetch ==
    (/\ pc = "fetching"
     /\ Len(existingData) > 0
     /\ LatestDate(existingData)[2] = todayStr[2]
     /\ LatestDate(existingData)[3] = todayStr[1]) =>
        IsoDay(startDate) > IsoDay(endDate)

\* what does hold of the code: the same on a host whose zone is UTC
SameMonthPlansNothingToFetchOnUtcHost ==
    tz = 0 => SameMonthPlansNothingToFetch

\* C12: in every run the steps happen in the order load and plan, fetch,
\* filter and merge, save: a request is sent only by the step that starts a
\* run (one per run, none after a failure), the merge follows a fetch that
\* succeeded, and the store is written at most once, by the step that ends a
\* run whose fetch succeeded.
StepsInOrder ==
    [][/\ pc' = "fetching" => pc \in {"idle", "exited"}
       /\ (existingData' # existingData \/ startDate' # startDate \/ endDate' # endDate)
             => (pc \in {"idle", "exited"} /\ fetchResult' = "none")
       /\ (fetchResult' # fetchResult /\ fetchResult' # "none") => pc = "fetching"
       /\ pc' = "writing" => (pc = "fetching" /\ fetchResult' = "ok")
       /\ (store' # store \/ writeResult' \notin {writeResult, "none"})
             => (/\ pc = "writing"
                 /\ fetchResult = "ok"
                 /\ writeResult = "none"
                 /\ pc' = "exited")]_vars

\* a run went through all the steps and wrote fetched records
StepsInOrderWitness ==
    /\ RunWrote
    /\ fetchResult = "ok"
    /\ Len(uniqueNewData) > 0
    /\ store.data = combinedData

\* C18: the requested window does not depend on the host's time zone: on a
\* host with any other UTC offset the same store and the same instant give the
\* same start and end.
WindowIndependentOfTimeZone ==
    (pc = "fetching" /\ Len(existingData) > 0) =>
        \A offset \in HostOffsets :
            /\ startDate = getNextMonthInterval(latestExtractionDate, offset).startDate
            /\ endDate = ClipToToday(getNextMonthInterval(latestExtractionDate, offset).endDate,
                                     todayStr)

\* C13: for every non-empty dataset in any order findLatestExtractionDate
\* returns an extraction date of the dataset that no record's date is later
\* than, and leaves the dataset's order unchanged; it returns null only for
\* the empty dataset.
LatestIsMaximal ==
    pc = "found" =>
        /\ existingData = storeBefore.data
        /\ (latestExtractionDate = NoDate) <=> (Len(storeBefore.data) = 0)
        /\ Len(storeBefore.data) > 0 =>
              /\ \E i \in DOMAIN storeBefore.data :
                    storeBefore.data[i].extraction_date = latestExtractionDate
              /\ \A i \in DOMAIN storeBefore.data :
                    ~DateLater(storeBefore.data[i].extraction_date, latestExtractionDate)

\* the search returned from a dataset of three records whose latest date is
\* held by the second record only
LatestIsMaximalWitness ==
    /\ pc = "found"
    /\ Len(existingData) = 3
    /\ existingData[2].extraction_date = latestExtractionDate
    /\ DateLater(latestExtractionDate, existingData[1].extraction_date)
    /\ DateLater(existingData[1].extraction_date, existingData[3].extraction_date)

\* C14: an unreadable data file is answered with status 500 and an error
\* object; after a non-OK status or a body that is no JSON array loadData has
\* rejected, the page then shows the error message, the dropdown stays empty
\* and no chart is drawn; a chart exists only after loadData resolved with an
\* array.
LoadFailureShowsErrorOnly ==
    /\ (page.status # 0 /\ store.kind \in {"absent", "unreadable"}) =>
          (page.status = 500 /\ page.body.kind = "error")
    /\ (/\ page.pc \in {"settled", "shown", "failed"}
        /\ (page.status # 200 \/ page.body.kind # "array")) =>
          page.loaded.state = "rejected"
    /\ page.loaded.state = "rejected" =>
          /\ page.options = {}
          /\ page.charts = 0
          /\ page.pc \in {"settled", "failed"}
          /\ page.pc = "settled" => ENABLED CatchHandler
          /\ page.pc = "failed" => page.error = "Failed to load data."
    /\ page.charts > 0 =>
          (page.loaded.state = "resolved" /\ page.status = 200 /\ page.body.kind = "array")
    /\ page.error # "" => page.loaded.state = "rejected"

\* the file held JSON that is no array, the server sent it with status 200,
\* and the page ended with the error message
LoadFailureShowsErrorOnlyWitness ==
    /\ store.kind = "notarray"
    /\ page.status = 200
    /\ page.pc = "failed"
    /\ page.error = "Failed to load data."

TooltipFits ==
    /\ tip.width + 2 * padding <= tip.vw
    /\ tip.height + 2 * padding <= tip.vh

TooltipPlacedInside ==
    /\ 2 * padding <= tip.left2
    /\ tip.left2 + 2 * tip.width + 2 * padding <= 2 * tip.vw
    /\ 2 * padding <= tip.top2
    /\ tip.top2 + 2 * tip.height + 2 * padding <= 2 * tip.vh

\* C15: for every pointer position inside the viewport and every tooltip
\* size that fits the viewport with the padding on each side, the placed
\* tooltip has padding <= left, left + tooltipWidth + padding <= viewport
\* width, padding <= top and top + tooltipHeight + padding <= viewport height.
TooltipInsideViewport ==
    (/\ tip.pc = "placed"
     /\ tip.clientX \in 0..tip.vw /\ tip.clientY \in 0..tip.vh
     /\ TooltipFits) => TooltipPlacedInside

\* the same for the page that is not scrolled, where pageX and pageY are the
\* pointer's place in the viewport
TooltipInsideViewportUnscrolled ==
    (/\ tip.pc = "placed"
     /\ tip.scrollX = 0 /\ tip.scrollY = 0
     /\ tip.pageX \in 0..tip.vw /\ tip.pageY \in 0..tip.vh
     /\ TooltipFits) => TooltipPlacedInside

MonthIndex(iso) == iso[1] * 12 + iso[2] - 1

\* the months from February 2022 to two months before the first run's month:
\* months whose successor has ended when the runs begin
PastMonths ==
    MonthIndex(<<2022, 2, 1>>) ..
        (MonthIndex(formatDate([day |-> FirstRunDay, ms |-> 0])) - 2)

\* C16: under repeated runs with successful fetches and an advancing today,
\* for every past month a request for a window of that month is followed by
\* a request for a window in a later month, also when the API holds no record
\* of the month.
JobNeverStuck ==
    \A m \in PastMonths :
        (pc = "fetching" /\ MonthIndex(startDate) = m)
            ~> (pc = "fetching" /\ MonthIndex(startDate) > m)

\* C17: over any sequence of runs every day from 2022-02-01 (or from the
\* first request on a store found filled) up to the end of the latest
\* request lies inside some requested window.
WindowsLeaveNoGap ==
    pc = "fetching" => IsoDay(endDate) <= coveredTo

\* what a finished run left of the store it found: every record is still
\* there as often as before, and a write added one record for each incoming
\* record that matched no stored key
StoreKeptAndGrown ==
    /\ \A r \in Universe :
          Occurrences(store.data, r) >= Occurrences(storeBefore.data, r)
    /\ Len(store.data) >= Len(storeBefore.data)
    /\ RunWrote =>
          Len(store.data) = Len(storeBefore.data)
              + Cardinality({i \in DOMAIN newData : KeyCount(existingData, newData[i]) = 0})

====
